---- MODULE Spec2Model ----
(***************************************************************************)
(* Model of the message exchange of simple-chat-ai: OpenAIService          *)
(* .sendMessage (services/openaiService.js) run against a remote assistant *)
(* service that owns the thread, the runs and the messages.                *)
(*                                                                         *)
(* One action models one await of sendMessage together with the code that  *)
(* runs up to the next await: the remote call and its outcome (a response  *)
(* or a thrown error), the catch blocks it reaches, and the loop tests.    *)
(*                                                                         *)
(* Spec and FairSpec run one invocation, ConcSpec two on one thread.       *)
(* TextSpec applies the text processing of the reply (the removal of       *)
(* "Assistant:" and removeCitations of utils/textFormat.js) to every text  *)
(* of a bounded length. ConvSpec runs getConversationByAgentId requests    *)
(* (controllers/conversationController.js) against the table conversations *)
(* and the remote service's threads.                                       *)
(* CtlSpec runs one sendMessageToAgent request followed by the sendMessage  *)
(* it calls. DelSpec runs deleteAgentById requests                         *)
(* (controllers/agentController.js) against the table agents.              *)
(***************************************************************************)
EXTENDS Integers, Sequences, FiniteSets, TLC

\* ------------------------------------------------------------------------
\* Bounds of the model
\* ------------------------------------------------------------------------

\* The poll loop of sendMessage has no bound of its own: the counters that
\* observe it (statusFetches, pollSlept, firstDoneAt) saturate after MaxPolls
\* status fetches, the loop itself goes on.
MaxPolls == 5

\* Number of assistant messages the remote service appends to the thread.
MaxAppends == 2

\* Length of the texts the text processing is applied to.
MaxLen == 4

\* Number of getConversationByAgentId requests, and of deleteAgentById
\* requests.
MaxRequests == 2

\* ------------------------------------------------------------------------
\* Program constants
\* ------------------------------------------------------------------------

\* let retries = 5
retries == 5

\* let delay = 5000
delay == 5000

\* setTimeout(resolve, 5000) of the poll loop
pollInterval == 5000

\* ------------------------------------------------------------------------
\* Values
\* ------------------------------------------------------------------------

\* sendMessage invocations (one per inbound request)
Invocations == {1, 2}

\* getConversationByAgentId requests
Requests == 1..MaxRequests

\* ids of the rows of table agents; req.params.id of a request: missing (0),
\* the id of an agent, or an id no agent has
AgentIds == {1, 2}
AgentParams == {0} \cup AgentIds \cup {9}

\* A row of table agents: vector_store_id and assistant_id are null (<<>>)
\* or the id of the agent's vector store / assistant at the remote service.
AgentRow(a, hasStore, hasAssistant) ==
    [present |-> TRUE,
     vector_store_id |-> IF hasStore THEN <<"vs", a>> ELSE <<>>,
     assistant_id |-> IF hasAssistant THEN <<"asst", a>> ELSE <<>>]

\* agent before the lookup, and the place of a deleted row
NoAgentRow == [present |-> FALSE, vector_store_id |-> <<>>, assistant_id |-> <<>>]

\* JavaScript null / undefined argument
NULL == "<null>"

\* Values a caller passes for message, threadId, assistantId
MessageArgs == {NULL, "", "hello"}
ThreadArgs == {NULL, "", "thread_1"}
AssistantArgs == {NULL, "", "asst_1"}

\* Run statuses of the remote service
PendingStatuses == {"queued", "in_progress"}
FailureStatuses == {"failed", "cancelled", "expired"}
Statuses == PendingStatuses \cup {"completed"} \cup FailureStatuses

\* A text is a sequence of tokens; "Assistant:" is the one token the code
\* looks for, the others stand for any other characters.
MsgTexts == {<<>>, <<"a">>, <<"a", "Assistant:", "Assistant:">>}

\* content of a message: absent (hasContent = FALSE), an empty list, or a
\* list whose first entry is a text part with the given value.
Contents ==
    {[hasContent |-> FALSE, content |-> <<>>], [hasContent |-> TRUE, content |-> <<>>]}
        \cup {[hasContent |-> TRUE, content |-> <<t>>] : t \in MsgTexts}

\* run id carried by messages that belong to no run of this model's invocations
ForeignRuns == {0}

\* The assistant messages the remote service appends: of the given runs with
\* any content, of a foreign run with a text.
AssistantMessages(runs) ==
    {[role |-> "assistant", run_id |-> r, hasContent |-> c.hasContent,
      content |-> c.content] : r \in runs \ ForeignRuns, c \in Contents}
        \cup {[role |-> "assistant", run_id |-> r, hasContent |-> TRUE,
                content |-> <<<<"a">>>>] : r \in ForeignRuns}

\* lastMessage before any assignment, and the result of [].pop()
Undefined == [role |-> "undefined", run_id |-> 0, hasContent |-> FALSE, content |-> <<>>]

VARIABLES
    active,               \* invocations of this behaviour
    pc,                   \* position of each invocation in sendMessage
    message, threadId, assistantId,   \* arguments of each invocation
    run,                  \* run.id of the run the invocation started (0: none)
    response,             \* response.data.status of the last status fetch
    attempt,              \* loop variable of the retrieval loop
    lastMessage,          \* lastMessage
    outcome, answer, error,  \* how the promise of sendMessage settled
    errLog,               \* entries written by logError
    thread,               \* remote: the thread's messages, oldest first
    nextRun,              \* remote: id of the next run
    appended,             \* remote: assistant messages appended so far
    posts, runStarts, statusFetches, listCalls,  \* remote calls issued
    pollSlept, retrySlept,   \* ms slept in the poll loop / the retrieval loop
    firstDoneAt,          \* first status fetch that returned a status not pending
    firstAnswerAt,        \* first list call whose response held an answer
    firstAnswerTexts,     \* the texts of the answers that response held
    firstSelectedAt,      \* first list call whose last message of the run had a text
    firstSelectedText,    \* that text
    newestListed,         \* the run's most recently appended message at the last list call
    callFailed,           \* the remote calls of the invocation that threw
    txStage,              \* text processing: how far the text has come
    txIn,                 \* text processing: the text it started from
    txOut,                \* text processing: the result of the first step
    txOut2,               \* text processing: the result of the second step
    rqPc,                 \* position of each getConversationByAgentId request
    rqAgent,              \* req.params.id of each request
    rqThread,             \* threadId of each request
    rqStatus,             \* HTTP status each request answered with (0: none yet)
    rqFailed,             \* the call of the request that threw ("": none)
    rows,                 \* database: the rows of table conversations, in insertion order
    threads,              \* remote: the threads created, each with the agent it was created for
    nextThread,           \* remote: id of the next thread
    ctPc,                 \* position of the sendMessageToAgent request
    ctData,               \* req.body of the request
    ctAssistant,          \* agent.assistant_id of the agent the request found
    ctStatus,             \* HTTP status the request answered with (0: none yet)
    ctReply,              \* the message of the answer
    ctFailed,             \* the database query of the request that threw ("": none)
    ctRowReads,           \* database: SELECTs on table conversations issued for the request
    ctRowWrites,          \* database: UPDATEs of the conversation row issued for the request
    dlPc,                 \* position of each deleteAgentById request
    dlId,                 \* req.params.id of each request
    dlAgent,              \* agent, the row each request read
    dlStatus,             \* HTTP status each request answered with (0: none yet)
    dlTried,              \* the remote deletions each request has issued
    dlFailed,             \* the calls of each request that threw
    agentRows,            \* database: the rows of table agents
    deleted               \* remote: the vector stores and assistants deleted

sendVars == <<active, pc, message, threadId, assistantId, run, response, attempt,
          lastMessage, outcome, answer, error, errLog, thread, nextRun, appended,
          posts, runStarts, statusFetches, listCalls, pollSlept, retrySlept,
          firstDoneAt, firstAnswerAt, firstAnswerTexts, firstSelectedAt,
          firstSelectedText, newestListed, callFailed>>
textVars == <<txStage, txIn, txOut, txOut2>>
convVars == <<rqPc, rqAgent, rqThread, rqStatus, rqFailed, rows, threads, nextThread>>
ctlVars == <<ctPc, ctData, ctAssistant, ctStatus, ctReply, ctFailed, ctRowReads,
             ctRowWrites>>
delVars == <<dlPc, dlId, dlAgent, dlStatus, dlTried, dlFailed, agentRows, deleted>>
otherVars == <<textVars, convVars, ctlVars, delVars>>
vars == <<sendVars, textVars, convVars, ctlVars, delVars>>

\* ------------------------------------------------------------------------
\* Pure parts of sendMessage
\* ------------------------------------------------------------------------

NoError == ""

\* The value of a function that ends without a return statement
UndefinedText == <<"<undefined>">>

\* !x of JavaScript for the argument values above
Falsy(v) == v = NULL \/ v = ""

\* Mutant of InvalidArgs: the check forgets assistantId.
InvalidArgsForgetsAssistant(m, t, a) == Falsy(m) \/ Falsy(t)

\* if (!message || !threadId || !assistantId)
InvalidArgs(m, t, a) == Falsy(m) \/ Falsy(t) \/ Falsy(a)

\* Mutant of IsPending: the loop test forgets "queued".
IsPendingForgetsQueued(s) == s = "in_progress"

\* Mutant of IsPending: the loop polls until the run is completed.
IsPendingUntilCompleted(s) == s # "completed"

\* while (response.data.status === "in_progress" || response.data.status === "queued")
IsPending(s) == s = "in_progress" \/ s = "queued"

\* Mutant of logError: the entry is written, a new error is thrown.
logErrorThrowsNew(inv, source, n, err) ==
    [entry |-> [inv |-> inv, source |-> source, n |-> n, error |-> err],
     thrown |-> "Error"]

\* Mutant of logError: the entry is written, the error is not thrown again.
logErrorSwallows(inv, source, n, err) ==
    [entry |-> [inv |-> inv, source |-> source, n |-> n, error |-> err],
     thrown |-> ""]

\* OpenAIService.logError(source, url, error): writes the entry, then throws
\* error. inv tags the entry with the invocation, n is the attempt number of
\* the "retry" sources (0 otherwise).
logError(inv, source, n, err) ==
    [entry |-> [inv |-> inv, source |-> source, n |-> n, error |-> err],
     thrown |-> err]

Reverse(s) == [i \in 1..Len(s) |-> s[Len(s) + 1 - i]]

\* Mutant of OwnedBy: the filter forgets run_id.
OwnedByAnyRun(m, runId) == m.role = "assistant"

\* m.run_id === run.id && m.role === "assistant"
OwnedBy(m, runId) == m.run_id = runId /\ m.role = "assistant"

\* Mutant of SelectLast: shift() instead of pop().
SelectFirst(list, runId) ==
    LET owned == SelectSeq(list, LAMBDA m : OwnedBy(m, runId))
    IN  IF owned = <<>> THEN Undefined ELSE owned[1]

\* messageList.data.filter(m => m.run_id === run.id && m.role === "assistant").pop()
SelectLast(list, runId) ==
    LET owned == SelectSeq(list, LAMBDA m : OwnedBy(m, runId))
    IN  IF owned = <<>> THEN Undefined ELSE owned[Len(owned)]

\* lastMessage.content[0]["text"] read while content[0] is undefined
TextCheckThrows(m) == m # Undefined /\ m.hasContent /\ m.content = <<>>

\* lastMessage && lastMessage.content && lastMessage.content[0]["text"].value
HasText(m) ==
    /\ m # Undefined
    /\ m.hasContent
    /\ m.content # <<>>
    /\ m.content[1] # <<>>

\* lastMessage.content[0]["text"].value
TextOf(m) == m.content[1]

Includes(text, tok) == \E i \in 1..Len(text) : text[i] = tok

\* text.replace(tok, ""): the first occurrence only
ReplaceFirst(text, tok) ==
    LET i == CHOOSE k \in 1..Len(text) :
                 text[k] = tok /\ \A j \in 1..(k - 1) : text[j] # tok
    IN  SubSeq(text, 1, i - 1) \o SubSeq(text, i + 1, Len(text))

\* Mutant of ShapeResult: every "Assistant:" is removed.
ShapeResultAll(text) == SelectSeq(text, LAMBDA c : c # "Assistant:")

\* if (resultMessage.includes("Assistant:")) resultMessage = resultMessage.replace("Assistant:", "")
ShapeResult(text) ==
    IF Includes(text, "Assistant:") THEN ReplaceFirst(text, "Assistant:") ELSE text

\* the message axiosClient.post(url, {role: "user", content: message}) appends
UserMessage(text) ==
    [role |-> "user", run_id |-> 0, hasContent |-> TRUE, content |-> <<<<text>>>>]

\* Mutant of SleepPoll: the loop fetches the status again without waiting.
SleepPollNone(ms) == ms

\* Observers of the poll loop saturate at MaxPolls.
CountPoll(n) == IF n < MaxPolls THEN n + 1 ELSE MaxPolls
SleepPoll(ms) == IF ms < MaxPolls * pollInterval THEN ms + pollInterval ELSE ms

\* A list response holds an answer of the run: an assistant message owned by
\* the run whose text is not empty.
IsAnswer(m, runId) ==
    /\ m.role = "assistant" /\ m.run_id = runId
    /\ m.hasContent /\ m.content # <<>> /\ m.content[1] # <<>>

AnswerTexts(list, runId) ==
    {list[i].content[1] : i \in {j \in 1..Len(list) : IsAnswer(list[j], runId)}}

HoldsAnswer(list, runId) == AnswerTexts(list, runId) # {}

\* The position in a list response of the last assistant message of the run
\* (0: none), and whether that message is an answer.
LastOfRun(list, runId) ==
    LET own == {i \in 1..Len(list) :
                   list[i].role = "assistant" /\ list[i].run_id = runId}
    IN  IF own = {} THEN 0 ELSE CHOOSE i \in own : \A j \in own : j <= i

LastOfRunIsAnswer(list, runId) ==
    LastOfRun(list, runId) # 0 /\ IsAnswer(list[LastOfRun(list, runId)], runId)

\* The assistant message of the run that the remote service appended last
\* to the thread th (oldest first), whatever the order of a list response.
NewestOfRun(th, runId) ==
    IF LastOfRun(th, runId) = 0 THEN Undefined ELSE th[LastOfRun(th, runId)]

\* ------------------------------------------------------------------------
\* Pure parts of the text processing (utils/textFormat.js)
\* ------------------------------------------------------------------------

\* The characters of a text: a letter, a space, a line break, the two
\* square brackets, the two thick brackets of a citation, and "Assistant:"
\* (one token, as in MsgTexts; to the regular expression and to trim() it is
\* a run of ordinary characters).
LineBreak == "\n"
ThickOpen == "<thick"
ThickClose == "thick>"
Chars == {"a", " ", LineBreak, "[", "]", ThickOpen, ThickClose, "Assistant:"}

\* The texts of at most MaxLen characters
Texts == UNION {[1..k -> Chars] : k \in 0..MaxLen}

\* A JavaScript value passed as text: null, or a string
NullText == [null |-> TRUE, chars |-> <<>>]
StringText(chars) == [null |-> FALSE, chars |-> chars]
TextInputs == {NullText} \cup {StringText(c) : c \in Texts}

\* What a call yields: a string, or a thrown TypeError
Produced(chars) == [threw |-> FALSE, chars |-> chars]
Thrown == [threw |-> TRUE, chars |-> <<>>]

\* !text
TextFalsy(t) == t.null \/ t.chars = <<>>

Openers == {"[", ThickOpen}
CloserOf(c) == IF c = "[" THEN "]" ELSE ThickClose

\* The regular expression /<thick>.*?<thick>|\[.*?\]/ tried at position i of s: the position of the closing glyph
\* of the match, 0 when there is no match. "." matches any character but a
\* line terminator, "*?" stops at the first closing glyph.
MatchEnd(s, i) ==
    IF s[i] \notin Openers THEN 0
    ELSE LET closers == {j \in (i + 1)..Len(s) : s[j] = CloserOf(s[i])}
         IN  IF closers = {} THEN 0
             ELSE LET j == CHOOSE c \in closers : \A d \in closers : c <= d
                  IN  IF \E k \in (i + 1)..(j - 1) : s[k] = LineBreak THEN 0 ELSE j

RECURSIVE ReplaceFirstMatch(_, _)
\* Mutant of ReplaceAll: the regular expression without the g flag.
ReplaceFirstMatch(s, i) ==
    IF i > Len(s) THEN <<>>
    ELSE IF MatchEnd(s, i) # 0 THEN SubSeq(s, MatchEnd(s, i) + 1, Len(s))
         ELSE <<s[i]>> \o ReplaceFirstMatch(s, i + 1)

RECURSIVE ReplaceAll(_, _)
\* text.replace(/.../g, "") from position i on: every match is removed, the
\* search goes on after the match.
ReplaceAll(s, i) ==
    IF i > Len(s) THEN <<>>
    ELSE IF MatchEnd(s, i) # 0 THEN ReplaceAll(s, MatchEnd(s, i) + 1)
         ELSE <<s[i]>> \o ReplaceAll(s, i + 1)

\* .trim(): white space and line terminators at both ends are dropped
IsSpace(c) == c \in {" ", LineBreak}
Trim(s) ==
    LET keep == {i \in 1..Len(s) : ~IsSpace(s[i])}
    IN  IF keep = {} THEN <<>>
        ELSE SubSeq(s, CHOOSE i \in keep : \A j \in keep : i <= j,
                       CHOOSE i \in keep : \A j \in keep : j <= i)

\* Mutant of removeCitations: without the test of !text.
removeCitationsUnguarded(t) ==
    IF t.null THEN Thrown ELSE Produced(Trim(ReplaceAll(t.chars, 1)))

\* removeCitations(text)
removeCitations(t) ==
    IF TextFalsy(t) THEN Produced(<<>>) ELSE Produced(Trim(ReplaceAll(t.chars, 1)))

\* ------------------------------------------------------------------------
\* Initial state
\* ------------------------------------------------------------------------

InitFor(act) ==
    /\ active = act
    /\ pc = [p \in Invocations |-> "idle"]
    /\ message = [p \in Invocations |-> NULL]
    /\ threadId = [p \in Invocations |-> NULL]
    /\ assistantId = [p \in Invocations |-> NULL]
    /\ run = [p \in Invocations |-> 0]
    /\ response = [p \in Invocations |-> "undefined"]
    /\ attempt = [p \in Invocations |-> 0]
    /\ lastMessage = [p \in Invocations |-> Undefined]
    /\ outcome = [p \in Invocations |-> "pending"]
    /\ answer = [p \in Invocations |-> <<>>]
    /\ error = [p \in Invocations |-> NoError]
    /\ errLog = <<>>
    /\ thread = <<>>
    /\ nextRun = 1
    /\ appended = 0
    /\ posts = [p \in Invocations |-> 0]
    /\ runStarts = [p \in Invocations |-> 0]
    /\ statusFetches = [p \in Invocations |-> 0]
    /\ listCalls = [p \in Invocations |-> 0]
    /\ pollSlept = [p \in Invocations |-> 0]
    /\ retrySlept = [p \in Invocations |-> 0]
    /\ firstDoneAt = [p \in Invocations |-> 0]
    /\ firstAnswerAt = [p \in Invocations |-> 0]
    /\ firstAnswerTexts = [p \in Invocations |-> {}]
    /\ firstSelectedAt = [p \in Invocations |-> 0]
    /\ firstSelectedText = [p \in Invocations |-> <<>>]
    /\ newestListed = [p \in Invocations |-> Undefined]
    /\ callFailed = [p \in Invocations |-> {}]

\* No text is being processed.
TextIdle ==
    /\ txStage = "off"
    /\ txIn = NullText
    /\ txOut = Produced(<<>>)
    /\ txOut2 = Produced(<<>>)

\* No getConversationByAgentId request has arrived, table conversations is
\* the given one, no thread was created.
ConvIdleWith(table) ==
    /\ rqPc = [r \in Requests |-> "idle"]
    /\ rqAgent = [r \in Requests |-> 0]
    /\ rqThread = [r \in Requests |-> 0]
    /\ rqStatus = [r \in Requests |-> 0]
    /\ rqFailed = [r \in Requests |-> ""]
    /\ rows = table
    /\ threads = {}
    /\ nextThread = 1

\* Table conversations is empty.
ConvIdle == ConvIdleWith(<<>>)

\* No sendMessageToAgent request has arrived.
CtlIdle ==
    /\ ctPc = "idle"
    /\ ctData = [agent_id |-> 0, thread_id |-> NULL, message |-> NULL]
    /\ ctAssistant = NULL
    /\ ctStatus = 0
    /\ ctReply = Produced(<<>>)
    /\ ctFailed = ""
    /\ ctRowReads = 0
    /\ ctRowWrites = 0

\* No deleteAgentById request has arrived; table agents is the given one.
DelIdleWith(table) ==
    /\ dlPc = [r \in Requests |-> "idle"]
    /\ dlId = [r \in Requests |-> 0]
    /\ dlAgent = [r \in Requests |-> NoAgentRow]
    /\ dlStatus = [r \in Requests |-> 0]
    /\ dlTried = [r \in Requests |-> {}]
    /\ dlFailed = [r \in Requests |-> {}]
    /\ agentRows = table
    /\ deleted = {}

\* Every agent has a vector store and an assistant.
DelIdle == DelIdleWith([a \in AgentIds |-> AgentRow(a, TRUE, TRUE)])

\* One request: a single invocation of sendMessage.
Init == InitFor({1}) /\ TextIdle /\ ConvIdle /\ CtlIdle /\ DelIdle

\* ------------------------------------------------------------------------
\* How an invocation settles
\* ------------------------------------------------------------------------

argVars == <<message, threadId, assistantId>>
remoteVars == <<thread, nextRun, appended>>
loopVars == <<attempt, lastMessage>>
ghostVars == <<firstDoneAt, firstAnswerAt, firstAnswerTexts, firstSelectedAt,
               firstSelectedText, newestListed>>

Goto(p, label, entries) ==
    /\ pc' = [pc EXCEPT ![p] = label]
    /\ errLog' = errLog \o entries
    /\ UNCHANGED <<outcome, answer, error>>

\* the promise of sendMessage rejects with err
Reject(p, err, entries) ==
    /\ pc' = [pc EXCEPT ![p] = "done"]
    /\ outcome' = [outcome EXCEPT ![p] = "rejected"]
    /\ error' = [error EXCEPT ![p] = err]
    /\ errLog' = errLog \o entries
    /\ UNCHANGED answer

\* the promise of sendMessage resolves with text
Return(p, text, entries) ==
    /\ pc' = [pc EXCEPT ![p] = "done"]
    /\ outcome' = [outcome EXCEPT ![p] = "returned"]
    /\ answer' = [answer EXCEPT ![p] = text]
    /\ errLog' = errLog \o entries
    /\ UNCHANGED error

\* catch (error) { await this.logError("OpenAIService/sendMessage 5", url, error) }
\* entries are the log entries written on the way here.
OuterCatch(p, err, entries) ==
    LET r == logError(p, "OpenAIService/sendMessage 5", 0, err)
    IN  IF r.thrown # NoError
        THEN Reject(p, r.thrown, entries \o <<r.entry>>)
        ELSE Return(p, UndefinedText, entries \o <<r.entry>>)

\* ------------------------------------------------------------------------
\* sendMessage(message, threadId, assistantId)
\* ------------------------------------------------------------------------

\* Entry: the argument check, before the first remote call.
Call(p) ==
    /\ pc[p] = "idle"
    /\ \E m \in MessageArgs, t \in ThreadArgs, a \in AssistantArgs :
        /\ message' = [message EXCEPT ![p] = m]
        /\ threadId' = [threadId EXCEPT ![p] = t]
        /\ assistantId' = [assistantId EXCEPT ![p] = a]
        /\ IF InvalidArgs(m, t, a)
           THEN Reject(p, "InvalidPayload", <<>>)
           ELSE Goto(p, "post", <<>>)
    /\ UNCHANGED <<active, run, response, loopVars, remoteVars, posts, runStarts,
                   statusFetches, listCalls, pollSlept, retrySlept, ghostVars, callFailed>>

\* POST /v1/threads/{threadId}/messages answers: the thread holds the message.
PostOk(p) ==
    /\ pc[p] = "post"
    /\ posts' = [posts EXCEPT ![p] = @ + 1]
    /\ thread' = Append(thread, UserMessage(message[p]))
    /\ Goto(p, "startRun", <<>>)
    /\ UNCHANGED <<active, argVars, run, response, loopVars, nextRun, appended,
                   runStarts, statusFetches, listCalls, pollSlept, retrySlept,
                   ghostVars, callFailed>>

\* The POST throws: catch { await this.logError("OpenAIService/sendMessage 1", ...) }
\* This try block is not inside the outer one.
PostFail(p) ==
    /\ pc[p] = "post"
    /\ posts' = [posts EXCEPT ![p] = @ + 1]
    /\ callFailed' = [callFailed EXCEPT ![p] = @ \cup {"post"}]
    /\ LET r == logError(p, "OpenAIService/sendMessage 1", 0, "PostError")
       IN  IF r.thrown # NoError
           THEN Reject(p, r.thrown, <<r.entry>>)
           ELSE Goto(p, "startRun", <<r.entry>>)
    /\ UNCHANGED <<active, argVars, run, response, loopVars, remoteVars,
                   runStarts, statusFetches, listCalls, pollSlept, retrySlept,
                   ghostVars>>

\* POST /v1/threads/{threadId}/runs answers with the new run.
StartRunOk(p) ==
    /\ pc[p] = "startRun"
    /\ runStarts' = [runStarts EXCEPT ![p] = @ + 1]
    /\ run' = [run EXCEPT ![p] = nextRun]
    /\ nextRun' = nextRun + 1
    /\ Goto(p, "status1", <<>>)
    /\ UNCHANGED <<active, argVars, response, loopVars, thread, appended, posts,
                   statusFetches, listCalls, pollSlept, retrySlept, ghostVars, callFailed>>

\* Mutant of StartRunFail: the failure is compensated, the posted user
\* message is deleted from the thread.
StartRunFailRollsBack(p) ==
    /\ pc[p] = "startRun"
    /\ runStarts' = [runStarts EXCEPT ![p] = @ + 1]
    /\ callFailed' = [callFailed EXCEPT ![p] = @ \cup {"run"}]
    /\ thread' = SelectSeq(thread, LAMBDA m : m.role # "user")
    /\ OuterCatch(p, "RunError", <<>>)
    /\ UNCHANGED <<active, argVars, run, response, loopVars, nextRun, appended, posts,
                   statusFetches, listCalls, pollSlept, retrySlept, ghostVars>>

\* The POST of the run throws: the outer catch.
StartRunFail(p) ==
    /\ pc[p] = "startRun"
    /\ runStarts' = [runStarts EXCEPT ![p] = @ + 1]
    /\ callFailed' = [callFailed EXCEPT ![p] = @ \cup {"run"}]
    /\ OuterCatch(p, "RunError", <<>>)
    /\ UNCHANGED <<active, argVars, run, response, loopVars, remoteVars, posts,
                   statusFetches, listCalls, pollSlept, retrySlept, ghostVars>>

\* A status fetch answers with status s; then the test of the while loop.
StatusOk(p, s) ==
    /\ statusFetches' = [statusFetches EXCEPT ![p] = CountPoll(@)]
    /\ firstDoneAt' = [firstDoneAt EXCEPT ![p] =
                         IF @ = 0 /\ s \notin PendingStatuses
                         THEN CountPoll(statusFetches[p]) ELSE @]
    /\ response' = [response EXCEPT ![p] = s]
    /\ Goto(p, IF IsPending(s) THEN "pollWait" ELSE "list", <<>>)
    /\ UNCHANGED <<active, argVars, run, loopVars, remoteVars, posts, runStarts,
                   listCalls, pollSlept, retrySlept, firstAnswerAt,
                   firstAnswerTexts, firstSelectedAt, firstSelectedText,
                   newestListed, callFailed>>

\* A status fetch throws: the catch around it logs under source; when that
\* does not throw, the code goes on with response as it was.
StatusFail(p, source) ==
    /\ statusFetches' = [statusFetches EXCEPT ![p] = CountPoll(@)]
    /\ callFailed' = [callFailed EXCEPT ![p] = @ \cup {"status"}]
    /\ LET r == logError(p, source, 0, "StatusError")
       IN  IF r.thrown # NoError
           THEN OuterCatch(p, r.thrown, <<r.entry>>)
           ELSE IF response[p] = "undefined"
                THEN OuterCatch(p, "TypeError", <<r.entry>>)
                ELSE Goto(p, IF IsPending(response[p]) THEN "pollWait" ELSE "list",
                          <<r.entry>>)
    /\ UNCHANGED <<active, argVars, run, response, loopVars, remoteVars, posts,
                   runStarts, listCalls, pollSlept, retrySlept, ghostVars>>

\* The status fetch before the loop
FirstStatusOk(p) == pc[p] = "status1" /\ \E s \in Statuses : StatusOk(p, s)

FirstStatusFail(p) ==
    pc[p] = "status1" /\ StatusFail(p, "OpenAIService/sendMessage 2")

\* await new Promise((resolve) => setTimeout(resolve, 5000)) of the poll loop
PollWait(p) ==
    /\ pc[p] = "pollWait"
    /\ pollSlept' = [pollSlept EXCEPT ![p] = SleepPoll(@)]
    /\ Goto(p, "status", <<>>)
    /\ UNCHANGED <<active, argVars, run, response, loopVars, remoteVars, posts,
                   runStarts, statusFetches, listCalls, retrySlept, ghostVars, callFailed>>

\* The status fetch inside the loop
PollStatusOk(p) == pc[p] = "status" /\ \E s \in Statuses : StatusOk(p, s)

PollStatusFail(p) ==
    pc[p] = "status" /\ StatusFail(p, "OpenAIService/sendMessage 3")

\* catch (error) { await this.logError(`OpenAIService/sendMessage retry ${attempt + 1}`, ...) }
\* of the retrieval loop's body; when logError does not throw, the for loop
\* goes to its next iteration.
RetryCatch(p, err) ==
    LET r == logError(p, "OpenAIService/sendMessage retry", attempt[p] + 1, err)
    IN  IF r.thrown # NoError
        THEN OuterCatch(p, r.thrown, <<r.entry>>) /\ UNCHANGED attempt
        ELSE /\ attempt' = [attempt EXCEPT ![p] = @ + 1]
             /\ Goto(p, IF attempt[p] + 1 < retries THEN "list" ELSE "finish",
                     <<r.entry>>)

\* GET /v1/threads/{threadId}/messages answers with the thread's messages in
\* the order the remote service chooses; then the selection of lastMessage
\* and the test that ends the loop.
ListOk(p) ==
    /\ pc[p] = "list"
    /\ listCalls' = [listCalls EXCEPT ![p] = @ + 1]
    /\ \E order \in {"asc", "desc"} :
        LET list == IF order = "asc" THEN thread ELSE Reverse(thread)
            last == SelectLast(list, run[p])
        IN  /\ lastMessage' = [lastMessage EXCEPT ![p] = last]
            /\ firstAnswerAt' =
                 [firstAnswerAt EXCEPT ![p] =
                    IF @ = 0 /\ HoldsAnswer(list, run[p]) THEN listCalls[p] + 1 ELSE @]
            /\ firstAnswerTexts' =
                 [firstAnswerTexts EXCEPT ![p] =
                    IF firstAnswerAt[p] = 0 THEN AnswerTexts(list, run[p]) ELSE @]
            /\ firstSelectedAt' =
                 [firstSelectedAt EXCEPT ![p] =
                    IF @ = 0 /\ LastOfRunIsAnswer(list, run[p])
                    THEN listCalls[p] + 1 ELSE @]
            /\ firstSelectedText' =
                 [firstSelectedText EXCEPT ![p] =
                    IF firstSelectedAt[p] = 0 /\ LastOfRunIsAnswer(list, run[p])
                    THEN list[LastOfRun(list, run[p])].content[1] ELSE @]
            /\ newestListed' = [newestListed EXCEPT ![p] = NewestOfRun(thread, run[p])]
            /\ IF TextCheckThrows(last)
               THEN RetryCatch(p, "TypeError")
               ELSE /\ Goto(p, IF HasText(last) THEN "finish" ELSE "retryWait", <<>>)
                    /\ UNCHANGED attempt
    /\ UNCHANGED <<active, argVars, run, response, remoteVars, posts, runStarts,
                   statusFetches, pollSlept, retrySlept, firstDoneAt,
                   callFailed>>

\* The GET of the message list throws.
ListFail(p) ==
    /\ pc[p] = "list"
    /\ listCalls' = [listCalls EXCEPT ![p] = @ + 1]
    /\ callFailed' = [callFailed EXCEPT ![p] = @ \cup {"list"}]
    /\ RetryCatch(p, "ListError")
    /\ UNCHANGED <<active, argVars, run, response, lastMessage,
                   remoteVars, posts, runStarts, statusFetches, pollSlept,
                   retrySlept, ghostVars>>

\* Mutant of RetryWait: a retry starts the exchange again from the post.
RetryWaitRestarts(p) ==
    /\ pc[p] = "retryWait"
    /\ retrySlept' = [retrySlept EXCEPT ![p] = @ + delay]
    /\ attempt' = [attempt EXCEPT ![p] = @ + 1]
    /\ Goto(p, IF attempt[p] + 1 < retries THEN "post" ELSE "finish", <<>>)
    /\ UNCHANGED <<active, argVars, run, response, lastMessage,
                   remoteVars, posts, runStarts, statusFetches, listCalls,
                   pollSlept, ghostVars, callFailed>>

\* await new Promise((resolve) => setTimeout(resolve, delay)); attempt++ and
\* the test attempt < retries.
RetryWait(p) ==
    /\ pc[p] = "retryWait"
    /\ retrySlept' = [retrySlept EXCEPT ![p] = @ + delay]
    /\ attempt' = [attempt EXCEPT ![p] = @ + 1]
    /\ Goto(p, IF attempt[p] + 1 < retries THEN "list" ELSE "finish", <<>>)
    /\ UNCHANGED <<active, argVars, run, response, lastMessage,
                   remoteVars, posts, runStarts, statusFetches, listCalls,
                   pollSlept, ghostVars, callFailed>>

\* After the loop: the test of lastMessage, the removal of "Assistant:" and
\* the return.
Finish(p) ==
    /\ pc[p] = "finish"
    /\ IF TextCheckThrows(lastMessage[p])
       THEN OuterCatch(p, "TypeError", <<>>)
       ELSE IF ~HasText(lastMessage[p])
            THEN OuterCatch(p, "NoAssistantMessage", <<>>)
            ELSE Return(p, ShapeResult(TextOf(lastMessage[p])), <<>>)
    /\ UNCHANGED <<active, argVars, run, response, loopVars, remoteVars, posts,
                   runStarts, statusFetches, listCalls, pollSlept, retrySlept,
                   ghostVars, callFailed>>

\* ------------------------------------------------------------------------
\* The remote service
\* ------------------------------------------------------------------------

\* The remote service appends an assistant message, of a run of one of the
\* invocations or of a foreign run, while a request is in flight.
RemoteAppend ==
    /\ appended < MaxAppends
    /\ \E p \in active : pc[p] \notin {"idle", "done"}
    /\ \E m \in AssistantMessages({run[q] : q \in active}) : thread' = Append(thread, m)
    /\ appended' = appended + 1
    /\ UNCHANGED <<active, pc, argVars, run, response, loopVars, outcome, answer,
                   error, errLog, nextRun, posts, runStarts, statusFetches,
                   listCalls, pollSlept, retrySlept, ghostVars, callFailed>>

\* ------------------------------------------------------------------------
\* The text of an answer on its way to the client
\* ------------------------------------------------------------------------

\* A text of every kind, not yet processed; no sendMessage invocation.
TextInit ==
    /\ InitFor({})
    /\ ConvIdle /\ CtlIdle /\ DelIdle
    /\ txStage = "input"
    /\ txIn \in TextInputs
    /\ txOut = Produced(<<>>)
    /\ txOut2 = Produced(<<>>)

\* sendMessage returns the text of the selected message, which is not empty,
\* without its first "Assistant:".
TextShape ==
    /\ txStage = "input"
    /\ ~txIn.null /\ txIn.chars # <<>>
    /\ txOut' = Produced(ShapeResult(txIn.chars))
    /\ txStage' = "returned"
    /\ UNCHANGED <<txIn, txOut2, sendVars, convVars, ctlVars, delVars>>

\* sendMessageToAgent: openAIResponse = await removeCitations(openAIResponse)
TextReply ==
    /\ txStage = "returned"
    /\ txOut2' = removeCitations(StringText(txOut.chars))
    /\ txStage' = "replied"
    /\ UNCHANGED <<txIn, txOut, sendVars, convVars, ctlVars, delVars>>

\* removeCitations applied to a text or to null
TextStrip ==
    /\ txStage = "input"
    /\ txOut' = removeCitations(txIn)
    /\ txStage' = "stripped"
    /\ UNCHANGED <<txIn, txOut2, sendVars, convVars, ctlVars, delVars>>

\* removeCitations applied to the string the first application returned
TextStripAgain ==
    /\ txStage = "stripped"
    /\ ~txOut.threw
    /\ txOut2' = removeCitations(StringText(txOut.chars))
    /\ txStage' = "stripped2"
    /\ UNCHANGED <<txIn, txOut, sendVars, convVars, ctlVars, delVars>>

TextNext ==
    \/ TextShape
    \/ TextReply
    \/ TextStrip
    \/ TextStripAgain

TextSpec == TextInit /\ [][TextNext]_vars

\* ------------------------------------------------------------------------
\* getConversationByAgentId(req, res) (controllers/conversationController.js)
\* ------------------------------------------------------------------------

\* Requests arrive at a server with no conversation yet; no sendMessage
\* invocation, no text.
ConvInit == InitFor({}) /\ TextIdle /\ ConvIdle /\ CtlIdle /\ DelIdle

\* res.status(code).json(...): the request is over
Respond(r, code) ==
    /\ rqPc' = [rqPc EXCEPT ![r] = "done"]
    /\ rqStatus' = [rqStatus EXCEPT ![r] = code]

\* SELECT * FROM conversations WHERE agent_id = ?
RowsOfAgent(a) == SelectSeq(rows, LAMBDA row : row.agent_id = a)

\* The request arrives; if (!agentId) 400.
ConvBegin(r) ==
    /\ rqPc[r] = "idle"
    /\ \E a \in AgentParams :
        /\ rqAgent' = [rqAgent EXCEPT ![r] = a]
        /\ IF a = 0
           THEN Respond(r, 400)
           ELSE rqPc' = [rqPc EXCEPT ![r] = "agent"] /\ UNCHANGED rqStatus
    /\ UNCHANGED <<rqThread, rqFailed, rows, threads, nextThread, sendVars, textVars, ctlVars, delVars>>

\* await modelAgent.getAgentById(db, agentId) answers; no agent: 404.
ConvAgent(r) ==
    /\ rqPc[r] = "agent"
    /\ IF rqAgent[r] \notin AgentIds
       THEN Respond(r, 404)
       ELSE rqPc' = [rqPc EXCEPT ![r] = "select"] /\ UNCHANGED rqStatus
    /\ UNCHANGED <<rqAgent, rqThread, rqFailed, rows, threads, nextThread, sendVars,
                   textVars, ctlVars, delVars>>

\* await model.getConversationByAgentId(db, agentId) answers: with no row the
\* request goes on to create a thread, with a row it answers the row's thread.
ConvSelect(r) ==
    /\ rqPc[r] = "select"
    /\ LET result == RowsOfAgent(rqAgent[r])
       IN  IF Len(result) = 0
           THEN /\ rqPc' = [rqPc EXCEPT ![r] = "createThread"]
                /\ UNCHANGED <<rqThread, rqStatus>>
           ELSE /\ rqThread' = [rqThread EXCEPT ![r] = result[1].thread_id]
                /\ Respond(r, 200)
    /\ UNCHANGED <<rqAgent, rqFailed, rows, threads, nextThread, sendVars, textVars, ctlVars, delVars>>

\* await openAIService.createThread() answers with a new thread.
ConvCreateThreadOk(r) ==
    /\ rqPc[r] = "createThread"
    /\ threads' = threads \cup {[id |-> nextThread, agent |-> rqAgent[r]]}
    /\ nextThread' = nextThread + 1
    /\ rqThread' = [rqThread EXCEPT ![r] = nextThread]
    /\ rqPc' = [rqPc EXCEPT ![r] = "insert"]
    /\ UNCHANGED <<rqAgent, rqStatus, rqFailed, rows, sendVars, textVars, ctlVars, delVars>>

\* createThread throws (its catch logs and rethrows): the catch of the
\* controller answers 500.
ConvCreateThreadFail(r) ==
    /\ rqPc[r] = "createThread"
    /\ rqFailed' = [rqFailed EXCEPT ![r] = "createThread"]
    /\ Respond(r, 500)
    /\ UNCHANGED <<rqAgent, rqThread, rows, threads, nextThread, sendVars, textVars, ctlVars, delVars>>

\* await model.createConversation(db, {agent_id, thread_id, ...}) answers:
\* INSERT INTO conversations SET ?; then 200 with the thread.
ConvInsertOk(r) ==
    /\ rqPc[r] = "insert"
    /\ rows' = Append(rows, [agent_id |-> rqAgent[r], thread_id |-> rqThread[r]])
    /\ Respond(r, 200)
    /\ UNCHANGED <<rqAgent, rqThread, rqFailed, threads, nextThread, sendVars, textVars, ctlVars, delVars>>

\* A query of the database rejects: the catch of the controller answers 500.
ConvQueryFail(r) ==
    /\ rqPc[r] \in {"agent", "select", "insert"}
    /\ rqFailed' = [rqFailed EXCEPT ![r] = rqPc[r]]
    /\ Respond(r, 500)
    /\ UNCHANGED <<rqAgent, rqThread, rows, threads, nextThread, sendVars, textVars, ctlVars, delVars>>

ConvNext ==
    \/ \E r \in Requests : ConvBegin(r)
    \/ \E r \in Requests : ConvAgent(r)
    \/ \E r \in Requests : ConvSelect(r)
    \/ \E r \in Requests : ConvCreateThreadOk(r)
    \/ \E r \in Requests : ConvCreateThreadFail(r)
    \/ \E r \in Requests : ConvInsertOk(r)
    \/ \E r \in Requests : ConvQueryFail(r)

ConvSpec == ConvInit /\ [][ConvNext]_vars

\* ------------------------------------------------------------------------
\* sendMessageToAgent(req, res) (controllers/conversationController.js)
\* ------------------------------------------------------------------------

\* req.body: agent_id missing (0), of an agent, or of no agent; thread_id
\* missing, empty, of a conversation, or of no conversation; message missing,
\* empty or a text.
CtlBodies ==
    [agent_id : AgentParams, thread_id : ThreadArgs \cup {"thread_9"},
     message : MessageArgs]

\* Mutant of validate: message is not among the required fields.
validateForgetsMessage(body) ==
    IF body.agent_id = 0 THEN "agent_id"
    ELSE IF Falsy(body.thread_id) THEN "thread_id"
    ELSE ""

\* validate(data, ['agent_id', 'thread_id', 'message']): the first field f
\* with !body[f], "" (null) when there is none
validate(body) ==
    IF body.agent_id = 0 THEN "agent_id"
    ELSE IF Falsy(body.thread_id) THEN "thread_id"
    ELSE IF Falsy(body.message) THEN "message"
    ELSE ""

\* agent.assistant_id as sendMessage receives it
AssistantArgOf(row) == IF row.assistant_id = <<>> THEN NULL ELSE "asst_1"

\* SELECT * FROM conversations WHERE thread_id = ?
RowsOfThread(t) == SelectSeq(rows, LAMBDA row : row.thread_id = t)

\* A request arrives at a server whose agent 1 has an assistant and a
\* conversation on thread_1 and whose agent 2 has neither.
CtlInit ==
    /\ InitFor({1})
    /\ TextIdle
    /\ ConvIdleWith(<<[agent_id |-> 1, thread_id |-> "thread_1"]>>)
    /\ CtlIdle
    /\ DelIdleWith([a \in AgentIds |-> AgentRow(a, TRUE, a = 1)])

\* res.status(code).json(...) / res.send(...): the request is over
CtlRespond(code) ==
    /\ ctPc' = "done"
    /\ ctStatus' = code

\* The request arrives; validate(data, requiredFields): 400 on an error.
CtlBegin ==
    /\ ctPc = "idle"
    /\ \E body \in CtlBodies :
        /\ ctData' = body
        /\ IF validate(body) # ""
           THEN CtlRespond(400)
           ELSE ctPc' = "agent" /\ UNCHANGED ctStatus
    /\ UNCHANGED <<ctAssistant, ctReply, ctFailed, ctRowReads, ctRowWrites, sendVars,
                   textVars, convVars, delVars>>

\* await modelAgent.getAgentById(db, data.agent_id) answers; no agent: 404.
CtlAgent ==
    /\ ctPc = "agent"
    /\ IF ctData.agent_id \notin AgentIds \/ ~agentRows[ctData.agent_id].present
       THEN CtlRespond(404) /\ UNCHANGED ctAssistant
       ELSE /\ ctAssistant' = AssistantArgOf(agentRows[ctData.agent_id])
            /\ ctPc' = "conversation"
            /\ UNCHANGED ctStatus
    /\ UNCHANGED <<ctData, ctReply, ctFailed, ctRowReads, ctRowWrites, sendVars,
                   textVars, convVars, delVars>>

\* Mutant of CtlConversation: sendMessage is called without the update of
\* the conversation before it.
CtlConversationSkipsUpdate ==
    /\ ctPc = "conversation"
    /\ ctRowReads' = ctRowReads + 1
    /\ IF Len(RowsOfThread(ctData.thread_id)) = 0
       THEN CtlRespond(404)
       ELSE ctPc' = "send" /\ UNCHANGED ctStatus
    /\ UNCHANGED <<ctData, ctAssistant, ctReply, ctFailed, ctRowWrites, sendVars,
                   textVars, convVars, delVars>>

\* await model.getConversationByThreadId(db, data.thread_id) answers; no
\* conversation: 404.
CtlConversation ==
    /\ ctPc = "conversation"
    /\ ctRowReads' = ctRowReads + 1
    /\ IF Len(RowsOfThread(ctData.thread_id)) = 0
       THEN CtlRespond(404)
       ELSE ctPc' = "update" /\ UNCHANGED ctStatus
    /\ UNCHANGED <<ctData, ctAssistant, ctReply, ctFailed, ctRowWrites, sendVars,
                   textVars, convVars, delVars>>

\* await model.updateConversationById(db, {id, updated_at: now}, id) answers.
CtlUpdate ==
    /\ ctPc = "update"
    /\ ctRowWrites' = ctRowWrites + 1
    /\ ctPc' = "send"
    /\ UNCHANGED <<ctData, ctAssistant, ctStatus, ctReply, ctFailed, ctRowReads,
                   sendVars, textVars, convVars, delVars>>

\* A query of the database rejects: the catch of the controller answers 500.
CtlQueryFail ==
    /\ ctPc \in {"agent", "conversation", "update"}
    /\ ctFailed' = ctPc
    /\ ctRowReads' = IF ctPc = "conversation" THEN ctRowReads + 1 ELSE ctRowReads
    /\ CtlRespond(500)
    /\ UNCHANGED <<ctData, ctAssistant, ctReply, ctRowWrites, sendVars, textVars,
                   convVars, delVars>>

\* new OpenAIService().sendMessage(data.message, data.thread_id, agent.assistant_id)
\* is called: its argument check runs.
CtlSend ==
    /\ ctPc = "send"
    /\ Call(1)
    /\ message'[1] = ctData.message
    /\ threadId'[1] = ctData.thread_id
    /\ assistantId'[1] = ctAssistant
    /\ ctPc' = "await"
    /\ UNCHANGED <<ctData, ctAssistant, ctStatus, ctReply, ctFailed, ctRowReads,
                   ctRowWrites, textVars, convVars, delVars>>

\* sendMessage returned: openAIResponse = await removeCitations(openAIResponse)
\* and res.send(response('success', ..., {message: openAIResponse})).
CtlReply ==
    /\ ctPc = "await"
    /\ pc[1] = "done" /\ outcome[1] = "returned"
    /\ ctReply' = removeCitations(StringText(answer[1]))
    /\ CtlRespond(200)
    /\ UNCHANGED <<ctData, ctAssistant, ctFailed, ctRowReads, ctRowWrites, sendVars,
                   textVars, convVars, delVars>>

\* sendMessage rejected: the catch of the controller answers 500.
CtlCatch ==
    /\ ctPc = "await"
    /\ pc[1] = "done" /\ outcome[1] = "rejected"
    /\ CtlRespond(500)
    /\ UNCHANGED <<ctData, ctAssistant, ctReply, ctFailed, ctRowReads, ctRowWrites,
                   sendVars, textVars, convVars, delVars>>

\* The steps of the controller, and those of the sendMessage it awaits.
CtlNext ==
    \/ CtlBegin
    \/ CtlAgent
    \/ CtlConversation
    \/ CtlUpdate
    \/ CtlQueryFail
    \/ CtlSend
    \/ CtlReply
    \/ CtlCatch
    \/ PostOk(1) /\ UNCHANGED otherVars
    \/ PostFail(1) /\ UNCHANGED otherVars
    \/ StartRunOk(1) /\ UNCHANGED otherVars
    \/ StartRunFail(1) /\ UNCHANGED otherVars
    \/ FirstStatusOk(1) /\ UNCHANGED otherVars
    \/ FirstStatusFail(1) /\ UNCHANGED otherVars
    \/ PollWait(1) /\ UNCHANGED otherVars
    \/ PollStatusOk(1) /\ UNCHANGED otherVars
    \/ PollStatusFail(1) /\ UNCHANGED otherVars
    \/ ListOk(1) /\ UNCHANGED otherVars
    \/ ListFail(1) /\ UNCHANGED otherVars
    \/ RetryWait(1) /\ UNCHANGED otherVars
    \/ Finish(1) /\ UNCHANGED otherVars
    \/ RemoteAppend /\ UNCHANGED otherVars

CtlSpec == CtlInit /\ [][CtlNext]_vars

\* ------------------------------------------------------------------------
\* deleteAgentById(req, res) (controllers/agentController.js)
\* ------------------------------------------------------------------------

\* The tables agents a server can hold: each agent with or without a vector
\* store, with or without an assistant.
AgentTables ==
    {[a \in AgentIds |-> AgentRow(a, f[a][1], f[a][2])] :
        f \in [AgentIds -> BOOLEAN \X BOOLEAN]}

\* Requests arrive at a server with any of these tables.
DelInit ==
    /\ InitFor({})
    /\ TextIdle /\ ConvIdle /\ CtlIdle
    /\ \E table \in AgentTables : DelIdleWith(table)

\* res.status(code).json(...): the request is over
DelRespond(r, code) ==
    /\ dlPc' = [dlPc EXCEPT ![r] = "done"]
    /\ dlStatus' = [dlStatus EXCEPT ![r] = code]

\* if (agent.assistant_id): the deletion of the assistant, or the row at once
AfterStore(row) == IF row.assistant_id # <<>> THEN "assistant" ELSE "row"

\* if (agent.vector_store_id): the deletion of the vector store, or on
AfterAgent(row) == IF row.vector_store_id # <<>> THEN "store" ELSE AfterStore(row)

\* The request arrives; if (!id) 400.
DelBegin(r) ==
    /\ dlPc[r] = "idle"
    /\ \E id \in AgentParams :
        /\ dlId' = [dlId EXCEPT ![r] = id]
        /\ IF id = 0
           THEN DelRespond(r, 400)
           ELSE dlPc' = [dlPc EXCEPT ![r] = "agent"] /\ UNCHANGED dlStatus
    /\ UNCHANGED <<dlAgent, dlTried, dlFailed, agentRows, deleted, sendVars, textVars,
                   convVars, ctlVars>>

\* await model.getAgentById(db, id) answers; no agent: 404. Then the test of
\* agent.vector_store_id.
DelAgent(r) ==
    /\ dlPc[r] = "agent"
    /\ IF dlId[r] \notin AgentIds \/ ~agentRows[dlId[r]].present
       THEN DelRespond(r, 404) /\ UNCHANGED dlAgent
       ELSE /\ dlAgent' = [dlAgent EXCEPT ![r] = agentRows[dlId[r]]]
            /\ dlPc' = [dlPc EXCEPT ![r] = AfterAgent(agentRows[dlId[r]])]
            /\ UNCHANGED dlStatus
    /\ UNCHANGED <<dlId, dlTried, dlFailed, agentRows, deleted, sendVars, textVars,
                   convVars, ctlVars>>

\* await openAIService.deleteStoreVector(agent.vector_store_id) answers.
DelStoreOk(r) ==
    /\ dlPc[r] = "store"
    /\ dlTried' = [dlTried EXCEPT ![r] = @ \cup {"store"}]
    /\ deleted' = deleted \cup {dlAgent[r].vector_store_id}
    /\ dlPc' = [dlPc EXCEPT ![r] = AfterStore(dlAgent[r])]
    /\ UNCHANGED <<dlId, dlAgent, dlStatus, dlFailed, agentRows, sendVars, textVars,
                   convVars, ctlVars>>

\* Mutant of DelStoreFail: the failure goes to the outer catch, 500.
DelStoreFailAborts(r) ==
    /\ dlPc[r] = "store"
    /\ dlTried' = [dlTried EXCEPT ![r] = @ \cup {"store"}]
    /\ dlFailed' = [dlFailed EXCEPT ![r] = @ \cup {"store"}]
    /\ DelRespond(r, 500)
    /\ UNCHANGED <<dlId, dlAgent, agentRows, deleted, sendVars, textVars, convVars,
                   ctlVars>>

\* deleteStoreVector throws (its catch logs and rethrows): the catch around
\* the call logs the error, the handler goes on.
DelStoreFail(r) ==
    /\ dlPc[r] = "store"
    /\ dlTried' = [dlTried EXCEPT ![r] = @ \cup {"store"}]
    /\ dlFailed' = [dlFailed EXCEPT ![r] = @ \cup {"store"}]
    /\ dlPc' = [dlPc EXCEPT ![r] = AfterStore(dlAgent[r])]
    /\ UNCHANGED <<dlId, dlAgent, dlStatus, agentRows, deleted, sendVars, textVars,
                   convVars, ctlVars>>

\* await openAIService.deleteAssistant(agent.assistant_id) answers.
DelAssistantOk(r) ==
    /\ dlPc[r] = "assistant"
    /\ dlTried' = [dlTried EXCEPT ![r] = @ \cup {"assistant"}]
    /\ deleted' = deleted \cup {dlAgent[r].assistant_id}
    /\ dlPc' = [dlPc EXCEPT ![r] = "row"]
    /\ UNCHANGED <<dlId, dlAgent, dlStatus, dlFailed, agentRows, sendVars, textVars,
                   convVars, ctlVars>>

\* deleteAssistant throws: the catch around the call logs the error, the
\* handler goes on.
DelAssistantFail(r) ==
    /\ dlPc[r] = "assistant"
    /\ dlTried' = [dlTried EXCEPT ![r] = @ \cup {"assistant"}]
    /\ dlFailed' = [dlFailed EXCEPT ![r] = @ \cup {"assistant"}]
    /\ dlPc' = [dlPc EXCEPT ![r] = "row"]
    /\ UNCHANGED <<dlId, dlAgent, dlStatus, agentRows, deleted, sendVars, textVars,
                   convVars, ctlVars>>

\* await model.deleteAgentById(db, id) answers: the row is gone; 200.
DelRowOk(r) ==
    /\ dlPc[r] = "row"
    /\ agentRows' = [agentRows EXCEPT ![dlId[r]] = NoAgentRow]
    /\ DelRespond(r, 200)
    /\ UNCHANGED <<dlId, dlAgent, dlTried, dlFailed, deleted, sendVars, textVars,
                   convVars, ctlVars>>

\* A query of the database rejects: the outer catch answers 500.
DelQueryFail(r) ==
    /\ dlPc[r] \in {"agent", "row"}
    /\ dlFailed' = [dlFailed EXCEPT ![r] = @ \cup {dlPc[r]}]
    /\ DelRespond(r, 500)
    /\ UNCHANGED <<dlId, dlAgent, dlTried, agentRows, deleted, sendVars, textVars,
                   convVars, ctlVars>>

DelNext ==
    \/ \E r \in Requests : DelBegin(r)
    \/ \E r \in Requests : DelAgent(r)
    \/ \E r \in Requests : DelStoreOk(r)
    \/ \E r \in Requests : DelStoreFail(r)
    \/ \E r \in Requests : DelAssistantOk(r)
    \/ \E r \in Requests : DelAssistantFail(r)
    \/ \E r \in Requests : DelRowOk(r)
    \/ \E r \in Requests : DelQueryFail(r)

DelSpec == DelInit /\ [][DelNext]_vars

\* ------------------------------------------------------------------------
\* Two requests at once on one thread
\* ------------------------------------------------------------------------

\* Two invocations of sendMessage, both about to be called.
ConcInit == InitFor({1, 2}) /\ TextIdle /\ ConvIdle /\ CtlIdle /\ DelIdle

\* Both are called with the same threadId, a message and an assistantId.
ConcCall(p) ==
    /\ Call(p)
    /\ message'[p] = "hello" /\ threadId'[p] = "thread_1" /\ assistantId'[p] = "asst_1"

\* The run is completed when its status is fetched first: no polling.
ConcStatus(p) == pc[p] = "status1" /\ StatusOk(p, "completed")

\* The remote service appends answers: assistant messages of the run of
\* either invocation whose text is not empty.
ConcAppend ==
    /\ RemoteAppend
    /\ \E p \in active : run[p] # 0 /\ IsAnswer(thread'[Len(thread')], run[p])

\* The remote calls of the two invocations interleave in every way; no call
\* throws.
ConcNext ==
    \/ \E p \in active : ConcCall(p) /\ UNCHANGED otherVars
    \/ \E p \in active : PostOk(p) /\ UNCHANGED otherVars
    \/ \E p \in active : StartRunOk(p) /\ UNCHANGED otherVars
    \/ \E p \in active : ConcStatus(p) /\ UNCHANGED otherVars
    \/ \E p \in active : ListOk(p) /\ UNCHANGED otherVars
    \/ \E p \in active : RetryWait(p) /\ UNCHANGED otherVars
    \/ \E p \in active : Finish(p) /\ UNCHANGED otherVars
    \/ ConcAppend /\ UNCHANGED otherVars

ConcSpec == ConcInit /\ [][ConcNext]_vars

\* ------------------------------------------------------------------------
\* Specifications
\* ------------------------------------------------------------------------

Step(p) ==
    /\ p \in active
    /\ \/ Call(p)
       \/ PostOk(p) \/ PostFail(p)
       \/ StartRunOk(p) \/ StartRunFail(p)
       \/ FirstStatusOk(p) \/ FirstStatusFail(p)
       \/ PollWait(p)
       \/ PollStatusOk(p) \/ PollStatusFail(p)
       \/ ListOk(p) \/ ListFail(p)
       \/ RetryWait(p)
       \/ Finish(p)
    /\ UNCHANGED otherVars

Next ==
    \/ \E p \in active : Call(p) /\ UNCHANGED otherVars
    \/ \E p \in active : PostOk(p) /\ UNCHANGED otherVars
    \/ \E p \in active : PostFail(p) /\ UNCHANGED otherVars
    \/ \E p \in active : StartRunOk(p) /\ UNCHANGED otherVars
    \/ \E p \in active : StartRunFail(p) /\ UNCHANGED otherVars
    \/ \E p \in active : FirstStatusOk(p) /\ UNCHANGED otherVars
    \/ \E p \in active : FirstStatusFail(p) /\ UNCHANGED otherVars
    \/ \E p \in active : PollWait(p) /\ UNCHANGED otherVars
    \/ \E p \in active : PollStatusOk(p) /\ UNCHANGED otherVars
    \/ \E p \in active : PollStatusFail(p) /\ UNCHANGED otherVars
    \/ \E p \in active : ListOk(p) /\ UNCHANGED otherVars
    \/ \E p \in active : ListFail(p) /\ UNCHANGED otherVars
    \/ \E p \in active : RetryWait(p) /\ UNCHANGED otherVars
    \/ \E p \in active : Finish(p) /\ UNCHANGED otherVars
    \/ RemoteAppend /\ UNCHANGED otherVars

Spec == Init /\ [][Next]_vars

\* Every remote call answers or fails (axiosClient has a timeout), every
\* timer fires and the continuation of every await runs: an invocation that
\* can take a step takes one. Nothing is assumed about what the remote
\* service answers.
FairSpec == Spec /\ \A p \in Invocations : WF_vars(Step(p))

\* ------------------------------------------------------------------------
\* Properties
\* ------------------------------------------------------------------------

Settled(p) == pc[p] = "done"

NoRemoteCall(p) ==
    posts[p] = 0 /\ runStarts[p] = 0 /\ statusFetches[p] = 0 /\ listCalls[p] = 0

\* C1: sendMessage called with an empty or missing message, threadId or
\* assistantId rejects with the invalid-payload error and has issued no
\* remote call: no message post, no job start, no status fetch, no list.
C1_InvalidArgsRejectWithoutRemoteCall ==
    \A p \in active :
        (pc[p] # "idle"
            /\ (Falsy(message[p]) \/ Falsy(threadId[p]) \/ Falsy(assistantId[p])))
        => /\ Settled(p)
           /\ outcome[p] = "rejected"
           /\ error[p] = "InvalidPayload"
           /\ NoRemoteCall(p)

\* An invocation whose only missing argument is assistantId was rejected.
C1_Witness ==
    \E p \in active :
        /\ Settled(p) /\ outcome[p] = "rejected"
        /\ message[p] = "hello" /\ threadId[p] = "thread_1"
        /\ assistantId[p] = NULL

\* C2: every sendMessage invocation eventually settles (returns or rejects),
\* whatever the remote service answers, as long as every single remote call
\* answers or fails.
C2_EveryInvocationSettles ==
    \A p \in Invocations : (pc[p] = "post") ~> Settled(p)

C3_Before(p) ==
    /\ runStarts[p] > 0 => posts[p] = 1
    /\ statusFetches[p] > 0 => runStarts[p] = 1 /\ run[p] # 0
    /\ listCalls[p] > 0 => statusFetches[p] > 0 /\ firstDoneAt[p] # 0
    /\ outcome[p] = "returned" => listCalls[p] > 0

C3_NotAfter(p) ==
    /\ runStarts[p] > 0 => posts'[p] = posts[p]
    /\ statusFetches[p] > 0 => posts'[p] = posts[p] /\ runStarts'[p] = runStarts[p]
    /\ listCalls[p] > 0 =>
          /\ posts'[p] = posts[p] /\ runStarts'[p] = runStarts[p]
          /\ statusFetches'[p] = statusFetches[p]
    /\ Settled(p) =>
          /\ posts'[p] = posts[p] /\ runStarts'[p] = runStarts[p]
          /\ statusFetches'[p] = statusFetches[p] /\ listCalls'[p] = listCalls[p]

\* C3: within one invocation the remote calls occur in the order post, job
\* start, status fetches, list calls, return: each kind of call is issued
\* only after the kinds before it and never after a kind that follows it;
\* the job is started only after the post attempt, and a list call only
\* after a status fetch returned a status that is not queued or in_progress.
C3_RemoteCallsInOrder ==
    /\ [](\A p \in Invocations : C3_Before(p))
    /\ [][\A p \in Invocations : C3_NotAfter(p)]_vars

\* An invocation returned after several status fetches and list calls.
C3_Witness ==
    \E p \in active :
        /\ outcome[p] = "returned"
        /\ posts[p] = 1 /\ runStarts[p] = 1
        /\ statusFetches[p] >= 2 /\ listCalls[p] >= 2

\* C4: when the post of the user message fails, sendMessage starts no job,
\* issues no later remote call and rejects with the error of the post; when
\* the job start fails, it issues no status fetch and no list call and
\* rejects with the error of the job start.
C4_PostOrStartFailureAborts ==
    \A p \in active :
        /\ "post" \in callFailed[p] =>
              /\ Settled(p) /\ outcome[p] = "rejected" /\ error[p] = "PostError"
              /\ runStarts[p] = 0 /\ statusFetches[p] = 0 /\ listCalls[p] = 0
        /\ "run" \in callFailed[p] =>
              /\ Settled(p) /\ outcome[p] = "rejected" /\ error[p] = "RunError"
              /\ statusFetches[p] = 0 /\ listCalls[p] = 0

\* The user message was posted and the job start failed.
C4_Witness ==
    \E p \in active :
        /\ "run" \in callFailed[p] /\ posts[p] = 1 /\ Len(thread) >= 1
        /\ outcome[p] = "rejected"

\* C5: while no status fetch throws, sendMessage issues exactly k status
\* fetches, k the position of the first returned status that is not queued
\* or in_progress: it keeps polling before that status and fetches no status
\* after it. (Counted exactly below MaxPolls.)
C5_PollsUntilFirstNonPending ==
    \A p \in active :
        "status" \notin callFailed[p] =>
            /\ firstDoneAt[p] # 0 => statusFetches[p] = firstDoneAt[p]
            /\ (statusFetches[p] > 0 /\ firstDoneAt[p] = 0) =>
                  pc[p] \in {"pollWait", "status"}
            /\ pc[p] \in {"list", "retryWait", "finish"} => firstDoneAt[p] # 0

\* Three pending statuses, then completed: four status fetches, polling over.
C5_Witness ==
    \E p \in active :
        /\ statusFetches[p] = 4 /\ firstDoneAt[p] = 4
        /\ response[p] = "completed" /\ pollSlept[p] = 3 * pollInterval
        /\ Settled(p) /\ outcome[p] = "returned"

\* C6: a status fetch that throws is tried again: sendMessage does not
\* reject because of a failed status fetch.
C6_FailedStatusFetchIsRetried ==
    \A p \in active :
        "status" \in callFailed[p] =>
            ~(Settled(p) /\ outcome[p] = "rejected" /\ error[p] = "StatusError")

\* C7: when polling ends with the status failed, cancelled or expired,
\* sendMessage rejects with a job-failed error, which is neither a transport
\* error nor the answer-not-found error, and starts no second job. Stated
\* for the runs in which no remote call throws and the remote service
\* appends no assistant message.
C7_FailedJobRejectsAsJobFailed ==
    \A p \in active :
        (Settled(p) /\ callFailed[p] = {} /\ appended = 0
            /\ firstDoneAt[p] # 0 /\ response[p] \in FailureStatuses)
        => /\ outcome[p] = "rejected"
           /\ error[p] \notin {"PostError", "RunError", "StatusError", "ListError",
                               "NoAssistantMessage"}
           /\ runStarts[p] = 1

\* C8: when no list response ever holds an answer of the polled job,
\* sendMessage makes exactly retries list calls, one delay between two
\* consecutive calls, and then rejects with the answer-not-found error.
\* Stated for the runs in which every list call is answered.
C8_NoAnswerExhaustsRetries ==
    \A p \in active :
        (Settled(p) /\ callFailed[p] = {} /\ listCalls[p] > 0
            /\ firstAnswerAt[p] = 0)
        => /\ listCalls[p] = retries
           /\ retrySlept[p] >= (retries - 1) * delay
           /\ outcome[p] = "rejected"
           /\ error[p] = "NoAssistantMessage"

\* C9 as claimed: when the k-th list call is the first whose response holds
\* an answer of the polled job, sendMessage returns the text of that answer
\* after exactly k list calls and k - 1 delays. Stated for the invocations
\* that return.
C9_FirstAnswerReturnedUnchanged ==
    \A p \in active :
        (Settled(p) /\ outcome[p] = "returned" /\ firstAnswerAt[p] # 0)
        => /\ answer[p] \in firstAnswerTexts[p]
           /\ listCalls[p] = firstAnswerAt[p]
           /\ retrySlept[p] = (firstAnswerAt[p] - 1) * delay

RECURSIVE DropFirst(_, _)
\* text without its first token tok
DropFirst(text, tok) ==
    IF text = <<>> THEN <<>>
    ELSE IF Head(text) = tok THEN Tail(text)
         ELSE <<Head(text)>> \o DropFirst(Tail(text), tok)

\* C9, amended: when the k-th list call is the first whose response has an
\* answer as the last assistant message of the polled job, no further list
\* call and no further delay happens, and sendMessage returns the text of
\* that message without its first "Assistant:".
C9_SelectedAnswerReturnedAtOnce ==
    \A p \in active :
        firstSelectedAt[p] # 0 =>
            /\ listCalls[p] = firstSelectedAt[p]
            /\ retrySlept[p] = (firstSelectedAt[p] - 1) * delay
            /\ pc[p] \in {"finish", "done"}
            /\ Settled(p) =>
                  /\ outcome[p] = "returned"
                  /\ answer[p] = DropFirst(firstSelectedText[p], "Assistant:")

\* The first response held an answer that was not the last message of the
\* run; the second response had one as the last, its text holding
\* "Assistant:", and sendMessage returned after the second call.
C9_Witness ==
    \E p \in active :
        /\ Settled(p) /\ outcome[p] = "returned"
        /\ firstAnswerAt[p] = 1 /\ firstSelectedAt[p] = 2 /\ listCalls[p] = 2
        /\ firstSelectedText[p] = <<"a", "Assistant:", "Assistant:">>
        /\ answer[p] = <<"a", "Assistant:">>

\* C10: a list call that throws on an attempt before the last one does not
\* end the retrieval: sendMessage does not reject with its error.
C10_ThrowingListCallIsRetried ==
    \A p \in active :
        ("list" \in callFailed[p] /\ listCalls[p] < retries) =>
            ~(Settled(p) /\ outcome[p] = "rejected" /\ error[p] = "ListError")

\* C11: when sendMessage returns, its answer is the text of the assistant
\* message of the polled run that was appended to the thread most recently
\* among those the last list response held, whichever order the response
\* came in (the text compared without its first "Assistant:").
C11_NewestOwnedMessageReturned ==
    \A p \in active :
        (Settled(p) /\ outcome[p] = "returned" /\ IsAnswer(newestListed[p], run[p])) =>
            answer[p] = DropFirst(newestListed[p].content[1], "Assistant:")

\* A text holds a span: an opening glyph and, somewhere after it, a closing
\* glyph of the same kind.
HasSpan(s) ==
    \E i \in 1..Len(s), j \in 1..Len(s) :
        /\ i < j
        /\ \/ s[i] = "[" /\ s[j] = "]"
           \/ s[i] = ThickOpen /\ s[j] = ThickClose

\* C12: the reply of a successful pipeline (the text sendMessage returned,
\* then removeCitations) holds no thick-bracket span and no square-bracket
\* span.
C12_ReplyHoldsNoSpan ==
    txStage = "replied" => ~txOut2.threw /\ ~HasSpan(txOut2.chars)

\* C13: stripping the result of a stripping yields that result again.
C13_StrippingIsIdempotent ==
    txStage = "stripped2" => txOut2 = txOut

\* A text of which the first stripping removed a span and trimmed a space:
\* the second stripping had a text with characters to work on.
C13_Witness ==
    /\ txStage = "stripped2"
    /\ txIn.chars = <<"[", "]", "a", " ">>
    /\ txOut.chars = <<"a">>
    /\ txOut2.chars = <<"a">>

\* C14: stripping null or the empty string yields the empty string and
\* throws nothing.
C14_NullOrEmptyYieldsEmpty ==
    (txStage = "stripped" /\ (txIn.null \/ txIn.chars = <<>>)) =>
        (~txOut.threw /\ txOut.chars = <<>>)

\* null was stripped.
C14_Witness ==
    txStage = "stripped" /\ txIn.null /\ ~txOut.threw /\ txOut.chars = <<>>

RECURSIVE RefScan(_)
\* The reference of C15: from the left, a span from an opening glyph to the
\* nearest following closing glyph of the same kind is dropped, every other
\* character is kept.
RefScan(s) ==
    IF s = <<>> THEN <<>>
    ELSE LET rest == Tail(s)
             close == IF Head(s) = "[" THEN "]" ELSE ThickClose
             ends == {j \in 1..Len(rest) : rest[j] = close}
         IN  IF Head(s) \in {"[", ThickOpen} /\ ends # {}
             THEN RefScan(SubSeq(rest, (CHOOSE j \in ends : \A k \in ends : j <= k) + 1,
                                 Len(rest)))
             ELSE <<Head(s)>> \o RefScan(rest)

RECURSIVE RefTrimLeft(_)
RefTrimLeft(s) ==
    IF s # <<>> /\ Head(s) \in {" ", LineBreak} THEN RefTrimLeft(Tail(s)) ELSE s

RefTrim(s) == Reverse(RefTrimLeft(Reverse(RefTrimLeft(s))))

\* C15: for every text the stripping result equals the reference.
C15_StrippingEqualsReference ==
    (txStage = "stripped" /\ ~txIn.null) =>
        (~txOut.threw /\ txOut.chars = RefTrim(RefScan(txIn.chars)))

\* C16: once the POST of the user message has answered, the thread holds
\* that message for good: whichever later step fails, sendMessage rejects
\* with the message still in the thread.
C16_PostedMessageIsNotRolledBack ==
    \A p \in active :
        (posts[p] = 1 /\ "post" \notin callFailed[p]) =>
            \E i \in 1..Len(thread) :
                thread[i] = [role |-> "user", run_id |-> 0, hasContent |-> TRUE,
                             content |-> <<<<message[p]>>>>]

\* The post answered, a later status fetch threw and sendMessage rejected;
\* the thread holds the user message.
C16_Witness ==
    \E p \in active :
        /\ Settled(p) /\ outcome[p] = "rejected" /\ error[p] = "StatusError"
        /\ posts[p] = 1 /\ "post" \notin callFailed[p]
        /\ \E i \in 1..Len(thread) : thread[i].role = "user"

\* The error a remote call of sendMessage throws
ErrorOf(call) ==
    CASE call = "post" -> "PostError"
      [] call = "run" -> "RunError"
      [] call = "status" -> "StatusError"
      [] call = "list" -> "ListError"

\* C18: a remote call of sendMessage that threw has its error in the error
\* log, written for this invocation, and sendMessage has rejected with that
\* same error: it has not returned and has not gone on.
C18_FailedCallIsLoggedAndRethrown ==
    \A p \in active : \A c \in callFailed[p] :
        /\ Settled(p) /\ outcome[p] = "rejected" /\ error[p] = ErrorOf(c)
        /\ \E i \in 1..Len(errLog) : errLog[i].inv = p /\ errLog[i].error = ErrorOf(c)

\* The third list call threw: two entries carry its error (the catch of the
\* loop and the outer catch) and sendMessage rejected with it.
C18_Witness ==
    \E p \in active :
        /\ callFailed[p] = {"list"} /\ listCalls[p] = 3
        /\ Settled(p) /\ outcome[p] = "rejected" /\ error[p] = "ListError"
        /\ Cardinality({i \in 1..Len(errLog) : errLog[i].error = "ListError"}) = 2

\* C19: the first status fetch follows the start of the run without a wait,
\* every further status fetch follows exactly one wait of pollInterval, a
\* wait follows only a fetch that returned a pending status, and nothing is
\* waited after the fetch that returned a status not pending. (Counted
\* exactly below MaxPolls.)
C19_OneWaitBetweenStatusFetches ==
    \A p \in active :
        statusFetches[p] < MaxPolls =>
            /\ pc[p] \in {"idle", "post", "startRun", "status1"} =>
                  (statusFetches[p] = 0 /\ pollSlept[p] = 0)
            /\ pc[p] = "status" => pollSlept[p] = statusFetches[p] * pollInterval
            /\ pc[p] = "pollWait" =>
                  /\ response[p] \in PendingStatuses
                  /\ pollSlept[p] = (statusFetches[p] - 1) * pollInterval
            /\ (pc[p] \in {"list", "retryWait", "finish", "done"} /\ statusFetches[p] > 0) =>
                  pollSlept[p] = (statusFetches[p] - 1) * pollInterval
            /\ firstDoneAt[p] # 0 =>
                  /\ pc[p] \notin {"pollWait", "status"}
                  /\ pollSlept[p] = (firstDoneAt[p] - 1) * pollInterval

\* Two pending statuses, then a status not pending: three fetches, two waits.
C19_Witness ==
    \E p \in active :
        /\ statusFetches[p] = 3 /\ firstDoneAt[p] = 3
        /\ pollSlept[p] = 2 * pollInterval
        /\ pc[p] = "list"

\* C17: whatever requests have run and however they interleaved, an agent
\* has at most one row in table conversations and at most one remote thread
\* was created for it.
C17_OneConversationPerAgent ==
    \A a \in AgentIds :
        /\ Len(SelectSeq(rows, LAMBDA row : row.agent_id = a)) <= 1
        /\ Cardinality({t \in threads : t.agent = a}) <= 1

\* C20: of two invocations on one thread, one that returns returns the text
\* (without its first "Assistant:") of a message of the thread whose role is
\* assistant and whose run_id is the run this invocation started, a run the
\* other invocation did not start: never a user message, never an answer to
\* the other run.
C20_EachReturnsItsOwnAnswer ==
    \A p \in active :
        (Settled(p) /\ outcome[p] = "returned") =>
            /\ run[p] # 0
            /\ \A q \in active \ {p} : run[q] # run[p]
            /\ \E i \in 1..Len(thread) :
                /\ thread[i].role = "assistant"
                /\ thread[i].run_id = run[p]
                /\ thread[i].content # <<>>
                /\ thread[i] = lastMessage[p]
                /\ answer[p] = DropFirst(thread[i].content[1], "Assistant:")

\* Both invocations returned, each the text of a message of its own run,
\* with the thread holding an answer of either run and the two texts
\* different.
C20_Witness ==
    /\ active = {1, 2}
    /\ \A p \in active :
          /\ Settled(p) /\ outcome[p] = "returned"
          /\ lastMessage[p].run_id = run[p]
    /\ answer[1] # answer[2]

\* C21: while every list call is answered, a selected message of the run
\* whose text is empty (an empty text value, or a content list with no
\* entry) does not end the retrieval: sendMessage waits and lists again, and
\* settles only after retries list calls, rejecting with answer-not-found.
C21_EmptyTextIsNotFound ==
    \A p \in active :
        (/\ callFailed[p] = {}
         /\ lastMessage[p].role = "assistant" /\ lastMessage[p].hasContent
         /\ (lastMessage[p].content = <<>> \/ lastMessage[p].content[1] = <<>>))
        => /\ pc[p] \in {"retryWait", "list", "finish", "done"}
           /\ Settled(p) =>
                 /\ outcome[p] = "rejected"
                 /\ error[p] = "NoAssistantMessage"
                 /\ listCalls[p] = retries

\* C24: an invocation posts the user message at most once and starts at most
\* one run, however it ends and however often it polls and lists; it creates
\* and deletes no thread.
C24_OnePostOneRun ==
    /\ \A p \in active : posts[p] <= 1 /\ runStarts[p] <= 1
    /\ threads = {} /\ nextThread = 1

\* An invocation that polled three times and listed three times has posted
\* once and started one run.
C24_Witness ==
    \E p \in active :
        /\ Settled(p)
        /\ statusFetches[p] = 3 /\ listCalls[p] = 3
        /\ posts[p] = 1 /\ runStarts[p] = 1

\* C26: the text sendMessage returns is the text of the selected message
\* without its first "Assistant:", every other character in place; a text
\* without "Assistant:" is returned as it is.
C26_FirstAssistantPrefixRemoved ==
    txStage = "returned" =>
        /\ ~txOut.threw
        /\ txOut.chars = DropFirst(txIn.chars, "Assistant:")
        /\ (\A i \in 1..Len(txIn.chars) : txIn.chars[i] # "Assistant:") =>
              txOut.chars = txIn.chars

\* A text with two "Assistant:", neither at its start: the first is gone,
\* the second is kept.
C26_Witness ==
    /\ txStage = "returned"
    /\ txIn.chars = <<"a", "Assistant:", " ", "Assistant:">>
    /\ txOut.chars = <<"a", " ", "Assistant:">>

\* C22: once sendMessage has been called by sendMessageToAgent, and so
\* before its first remote call, the conversation row has been updated, and
\* from then on the row is neither read nor written again: one SELECT and one
\* UPDATE, both issued by the controller.
C22_TimestampWrittenBeforeSendMessage ==
    (pc[1] # "idle" \/ ~NoRemoteCall(1)) =>
        /\ ctRowWrites = 1
        /\ ctRowReads = 1
        /\ ctPc \in {"await", "done"}

\* sendMessage has posted, started the run and listed twice; the row was
\* written once, before all of it.
C22_Witness ==
    /\ ctPc = "await"
    /\ posts[1] = 1 /\ runStarts[1] = 1 /\ listCalls[1] = 2
    /\ ctRowWrites = 1

\* C25: a request answered 400 or 404 has called no sendMessage, issued no
\* remote call and not updated the conversation; a request with a missing
\* field is answered 400; sendMessage is called only with agent_id,
\* thread_id and message all given, the agent found and a conversation found
\* for the thread.
C25_RejectedRequestCallsNothing ==
    /\ ctStatus \in {400, 404} =>
          /\ pc[1] = "idle" /\ NoRemoteCall(1)
          /\ ctRowWrites = 0
    /\ (/\ ctPc = "done"
        /\ \/ ctData.agent_id = 0
           \/ ctData.thread_id \in {NULL, ""}
           \/ ctData.message \in {NULL, ""}) => ctStatus = 400
    /\ pc[1] # "idle" =>
          /\ ctData.agent_id \in AgentIds
          /\ ctData.thread_id \notin {NULL, ""} /\ ctData.message \notin {NULL, ""}
          /\ \E i \in 1..Len(rows) : rows[i].thread_id = ctData.thread_id

\* A request with all fields and a known agent, for a thread that has no
\* conversation: 404 after the lookup of the conversation.
C25_Witness ==
    /\ ctPc = "done" /\ ctStatus = 404
    /\ ctData.thread_id = "thread_9" /\ ctData.agent_id \in AgentIds
    /\ ctRowReads = 1 /\ ctFailed = ""

\* The remote deletions a request owes to the agent it read
Owed(row) ==
    {k \in {"store", "assistant"} :
        \/ k = "store" /\ row.vector_store_id # <<>>
        \/ k = "assistant" /\ row.assistant_id # <<>>}

\* C23: a request whose deletion of the vector store or of the assistant
\* failed goes on: past these two steps it has attempted every deletion the
\* agent's row calls for, whatever the outcome of the other, and unless the
\* deletion of the row itself throws it ends with the row deleted and 200.
C23_RemoteDeletionsAreBestEffort ==
    \A r \in Requests :
        (dlFailed[r] \cap {"store", "assistant"} # {}) =>
            /\ dlPc[r] \in {"assistant", "row", "done"}
            /\ dlPc[r] \in {"row", "done"} => dlTried[r] = Owed(dlAgent[r])
            /\ (dlPc[r] = "done" /\ "row" \notin dlFailed[r]) =>
                  /\ dlStatus[r] = 200
                  /\ ~agentRows[dlId[r]].present

\* Both remote deletions of a request failed; the row is deleted and the
\* answer is 200.
C23_Witness ==
    \E r \in Requests :
        /\ dlFailed[r] = {"store", "assistant"}
        /\ dlPc[r] = "done" /\ dlStatus[r] = 200
        /\ ~agentRows[dlId[r]].present
        /\ deleted = {}

====
